---- MODULE Spec2Model ----
(***************************************************************************)
(* State-machine model of the rslaser example notebooks, executed top to   *)
(* bottom:                                                                 *)
(*   xt02_heat_2D_square  (FEniCS heat equation, evolve() generator and    *)
(*                         the cell-7 time-stepping loop),                 *)
(*   fn_simp_06d          (laser pulse crossing a crystal, cell-8 loop and *)
(*                         evolve() generator with its cell-11 consumer),  *)
(*   the cavity propagation notebook (cavitywfrList),                      *)
(*   laser_amp_test_01    (approximate Frantz-Nodvik solution on a grid),  *)
(*   fn1d_02              (energy gain and remaining inversion).           *)
(*                                                                         *)
(* A finite-element field is modelled by where it comes from: the profile  *)
(* it was interpolated from and the number of solver steps applied to it.  *)
(* The library solver is a black box that writes into its second argument  *)
(* the field one time step after the previous-solution field of the form.  *)
(*                                                                         *)
(* The floating-point numbers of laser_amp_test_01 and fn1d_02 are         *)
(* modelled at reduced precision: a number is an integer count of 1 / Unit *)
(* and every arithmetic result is rounded to Digits significant decimal    *)
(* digits, as float64 rounds every result to 53 significant bits.          *)
(***************************************************************************)
EXTENDS Integers, Sequences, FiniteSets, TLC

\* ---------------------------------------------------------------- bounds
\* Besides the notebooks' own parameters, every (number of steps, plot
\* interval) pair in 1..MaxSteps x 1..MaxNip is explored, and the notebooks'
\* own number of steps with every plot interval in 1..MaxNip.
MaxSteps == 5
MaxNip == 3
\* The cavity notebook is run with every number of passes in 1..MaxPass.
MaxPass == 4

\* ------------------------------------------------ the notebooks' parameters
\* xt02_heat_2D_square
num_steps_xt02 == 50
nip_xt02 == 10
num_columns == 5
\* fn_simp_06d; lengths and times in units of the mesh cell ds = 1 / mesh_d
mesh_d == 226
p_w == 46
p_hw == p_w \div 2
p_x0 == p_hw + 2
cm == 163
c_w == 70
c_hw == c_w \div 2
c_x0 == 85
T == 183
n_steps_fn == 800
nip_fn == 100
n_rows == 3
n_cols == 5
\* laser_amp_test_01
time_0 == 0
num_points == 10

VARIABLES
    notebook,   \* which notebook the kernel is executing
    pc,         \* position of the top-level (cell) code
    gen,        \* state of the evolve() generator object
    gpc,        \* position inside the evolve() generator frame
    raised,     \* exception in flight from the generator to its consumer
    exc,        \* unhandled exception that ended the execution
    run,        \* number of the time-stepping run within the notebook
    t,          \* current time, in units of dt
    nip,        \* number of intervals between plots
    solves,     \* every call to solve: run, step, previous solution, bc
    frames,     \* every frame rendered or yielded in a loop: run, step, field, place
    plotted,    \* the field drawn by every call to plot
    u, u_n, n, col, figures, num_steps,          \* xt02_heat_2D_square
    nph, nph_j, Dcr, Dcr_j, ii, idx, n_steps,    \* fn_simp_06d
    npass, i, heap, cavitywfrList, wfrplot,      \* cavity propagation
    gamma_ts, sigma_ts, delta_ts, n_ph_0,        \* laser_amp_test_01, fn1d_02
    tau_pulse, eta_pulse, length_ts,
    n_ph_ts, delta_0, dt, dz,                    \* laser_amp_test_01
    t_data, z_data, n_data, j_data,
    delta_ts_0, epsilon_ts, g_e_max, factor_ts,  \* fn1d_02
    factor_max, g_e, n_ph

common == <<notebook, pc, gen, gpc, raised, exc, run, t, nip, solves, frames, plotted>>
xt02vars == <<u, u_n, n, col, figures, num_steps>>
fnvars == <<nph, nph_j, Dcr, Dcr_j, ii, idx, n_steps>>
cavvars == <<npass, i, heap, cavitywfrList, wfrplot>>
pulsevars == <<gamma_ts, sigma_ts, delta_ts, n_ph_0, tau_pulse, eta_pulse, length_ts>>
ampvars == <<n_ph_ts, delta_0, dt, dz, t_data, z_data, n_data, j_data>>
fn1dvars == <<delta_ts_0, epsilon_ts, g_e_max, factor_ts, factor_max, g_e, n_ph>>
vars == <<common, xt02vars, fnvars, cavvars, pulsevars, ampvars, fn1dvars>>

\* ---------------------------------------------------------------- fields
\* interpolate(expr, V): the profile itself, no solver step applied.
interpolate(expr) == [src |-> expr, steps |-> 0]

\* Function(V): a fresh, zero field.
Function == [src |-> "zero", steps |-> 0]

\* TrialFunction(V): the unknown of a variational form, not a field.
TrialFunction == [src |-> "TrialFunction", steps |-> 0]

\* A name that is not bound yet.
Unbound == [src |-> "unbound", steps |-> 0]

\* solve(a == L, u, bc): the forms a, L hold the previous-solution object;
\* the result is that field advanced by one time step.
SolveResult(prev) == [prev EXCEPT !.steps = @ + 1]

\* the Dirichlet conditions handed to the solver in xt02_heat_2D_square
bc_xt02 == {"boundary"}

\* fn_simp_06d: bc_L = DirichletBC(V, Constant(0), on_L), bc_R likewise on
\* on_R; bc = [bc_L, bc_R].  A condition is named by the edge it fixes.
bc_L == "on_L"
bc_R == "on_R"
bc == {bc_L, bc_R}

\* One entry of the log of solver calls, of frames, of plot calls.
SolveCall(prev, step, bcs, outcome) ==
    [run |-> run, step |-> step, prev |-> prev, bc |-> bcs, outcome |-> outcome]
Frame(val, step, place) == [run |-> run, step |-> step, val |-> val, at |-> place]
Plot(val) == [run |-> run, val |-> val]

\* A loop that runs one iteration too many.
HasNext_inclusive(k, stop) == k + 1 <= stop

\* for k in range(stop): is there an iteration after iteration k?
HasNext(k, stop) == k + 1 < stop

\* The parameter pairs explored: the small ones, the notebook's own, and
\* the notebook's number of steps with a small plot interval.
StepsNip(actualSteps, actualNip) ==
    ((1..MaxSteps) \X (1..MaxNip)) \cup {<<actualSteps, actualNip>>}
        \cup ({actualSteps} \X (1..MaxNip))

\* --------------------------------------------------- floating-point numbers
\* the number 1.0, and the number of significant decimal digits of a float
Unit == 1000
Digits == 3

Abs(x) == IF x < 0 THEN 0 - x ELSE x
Sgn(x) == IF x < 0 THEN 0 - 1 ELSE 1

\* the integer nearest to a / b, for b > 0
Nearest(a, b) == Sgn(a) * ((Abs(a) + b \div 2) \div b)

\* the spacing of the floats around magnitude m
RECURSIVE Quantum(_)
Quantum(m) == IF m < 10 ^ Digits THEN 1 ELSE 10 * Quantum(m \div 10)

\* the float nearest to x: every operation returns its result rounded
Round(x) == Nearest(x, Quantum(Abs(x))) * Quantum(Abs(x))

\* the float of a Python int
Float(k) == Round(k * Unit)

\* x + y, x - y, x * y, x / y and -x on floats
Add(x, y) == Round(x + y)
Sub(x, y) == Round(x - y)
Mul(x, y) == Round(Nearest(x * y, Unit))
Div(x, y) == Round(Sgn(y) * Nearest(x * Unit, Abs(y)))
Neg(x) == 0 - x

\* e^x for x >= 0 by its power series, before rounding
ExpTerms == 16
RECURSIVE ExpSeries(_, _, _)
ExpSeries(x, term, k) ==
    IF k > ExpTerms \/ term = 0 THEN 0
    ELSE term + ExpSeries(x, Nearest(term * x, k * Unit), k + 1)
ExpPos(x) == ExpSeries(x, Unit, 1)

\* np.exp(x)
np_exp(x) ==
    IF x >= 0 THEN Round(ExpPos(x))
              ELSE Round(Nearest(Unit * Unit, ExpPos(0 - x)))

\* the x in lo..hi whose e^x is nearest to y, by bisection
LogMax == 5 * Unit
RECURSIVE LogSearch(_, _, _)
LogSearch(lo, hi, y) ==
    IF hi - lo <= 1
      THEN IF 2 * y >= ExpPos(lo) + ExpPos(hi) THEN hi ELSE lo
      ELSE LET mid == (lo + hi) \div 2
           IN  IF ExpPos(mid) <= y THEN LogSearch(mid, hi, y)
                                   ELSE LogSearch(lo, mid, y)

\* np.log(y), for 1 <= y <= e^5
np_log(y) == Round(LogSearch(0, LogMax, y))

\* np.zeros(k)
np_zeros(k) == [e \in 1..k |-> 0]

\* scipy.constants.c (speed_of_light); lengths are in units in which it is 1
speed_of_light == Unit

\* ------------------------------------------------------------------ Init
InitCommon ==
    /\ gen = "none" /\ gpc = "none" /\ raised = "none" /\ exc = "none"
    /\ run = 0 /\ t = 0
    /\ solves = <<>> /\ frames = <<>> /\ plotted = <<>>

InitXt02 ==
    /\ notebook = "xt02_heat_2D_square"
    /\ pc = "cell4"
    /\ \E p \in StepsNip(num_steps_xt02, nip_xt02) : num_steps = p[1] /\ nip = p[2]
    /\ u = Unbound /\ u_n = Unbound
    /\ n = 0 /\ col = 0 /\ figures = 0

IdleXt02 ==
    /\ u = Unbound /\ u_n = Unbound
    /\ n = 0 /\ col = 0 /\ figures = 0 /\ num_steps = 0

InitFn ==
    /\ notebook = "fn_simp_06d"
    /\ pc = "cell3"
    /\ \E p \in StepsNip(n_steps_fn, nip_fn) : n_steps = p[1] /\ nip = p[2]
    /\ nph = Unbound /\ nph_j = Unbound /\ Dcr = Unbound /\ Dcr_j = Unbound
    /\ ii = 0 /\ idx = 0

IdleFn ==
    /\ nph = Unbound /\ nph_j = Unbound /\ Dcr = Unbound /\ Dcr_j = Unbound
    /\ ii = 0 /\ idx = 0 /\ n_steps = 0

InitCavity ==
    /\ notebook = "cavity"
    /\ pc = "cell4"
    /\ npass \in 1..MaxPass
    /\ i = 0 /\ heap = <<>> /\ cavitywfrList = <<>> /\ wfrplot = 0
    /\ nip = 0

IdleCavity ==
    /\ npass = 0 /\ i = 0 /\ heap = <<>> /\ cavitywfrList = <<>> /\ wfrplot = 0

\* No cell of laser_amp_test_01 or fn1d_02 has run: nothing is assigned.
IdlePulse ==
    /\ gamma_ts = 0 /\ sigma_ts = 0 /\ delta_ts = 0 /\ n_ph_0 = 0
    /\ tau_pulse = 0 /\ eta_pulse = 0 /\ length_ts = 0

IdleAmp ==
    /\ n_ph_ts = 0 /\ delta_0 = 0 /\ dt = 0 /\ dz = 0
    /\ t_data = <<>> /\ z_data = <<>> /\ n_data = <<>> /\ j_data = 0

IdleFn1d ==
    /\ delta_ts_0 = 0 /\ epsilon_ts = 0 /\ g_e_max = 0 /\ factor_ts = 0
    /\ factor_max = 0 /\ g_e = 0 /\ n_ph = 0

InitAmp ==
    /\ notebook = "laser_amp_test_01"
    /\ pc = "cell2"
    /\ nip = 0

InitFn1d ==
    /\ notebook = "fn1d_02"
    /\ pc = "cell2"
    /\ nip = 0

Init ==
    /\ InitCommon
    /\ IdlePulse /\ IdleAmp /\ IdleFn1d
    /\ \/ InitXt02 /\ IdleFn /\ IdleCavity
       \/ InitFn /\ IdleXt02 /\ IdleCavity
       \/ InitCavity /\ IdleXt02 /\ IdleFn
       \/ InitAmp /\ IdleXt02 /\ IdleFn /\ IdleCavity
       \/ InitFn1d /\ IdleXt02 /\ IdleFn /\ IdleCavity

\* ------------------------------------------------- xt02_heat_2D_square
\* cell 4: parameters, mesh, boundary condition, initial value, forms.
xt02_cell4 ==
    /\ notebook = "xt02_heat_2D_square" /\ pc = "cell4"
    /\ u_n' = interpolate("u_0")
    /\ u' = Unbound
    /\ pc' = "cell5"
    /\ UNCHANGED <<notebook, gen, gpc, raised, exc, run, t, nip, solves, frames, plotted>>
    /\ UNCHANGED <<fnvars, cavvars, pulsevars, ampvars, fn1dvars>>
    /\ UNCHANGED <<n, col, figures, num_steps>>

\* cell 5: multiplot_from_generator(evolve(), 5): calling evolve() only
\* creates the generator; the try block is entered.
xt02_cell5 ==
    /\ notebook = "xt02_heat_2D_square" /\ pc = "cell5"
    /\ gen' = "created" /\ gpc' = "start"
    /\ pc' = "mp_figure"
    /\ UNCHANGED <<notebook, raised, exc, run, t, nip, solves, frames, plotted>>
    /\ UNCHANGED <<fnvars, cavvars, pulsevars, ampvars, fn1dvars>>
    /\ UNCHANGED xt02vars

\* multiplot_from_generator: plt.figure once per row, then the column loop.
multiplot_figure ==
    /\ pc = "mp_figure"
    /\ figures' = figures + 1
    /\ col' = 0
    /\ pc' = "mp_next"
    /\ UNCHANGED <<notebook, gen, gpc, raised, exc, run, t, nip, solves, frames, plotted>>
    /\ UNCHANGED <<fnvars, cavvars, pulsevars, ampvars, fn1dvars>>
    /\ UNCHANGED <<u, u_n, n, num_steps>>

\* Where the consumer continues when next(g) returns a value.
AfterNext(c) == IF HasNext(c, num_columns) THEN "mp_next" ELSE "mp_figure"

\* plt.subplot(1, num_columns, col+1); next(g): the generator runs and the
\* caller waits for it.
multiplot_next ==
    /\ pc = "mp_next"
    /\ gen \in {"created", "suspended"}
    /\ gen' = "running"
    /\ pc' = "mp_blocked"
    /\ UNCHANGED <<notebook, gpc, raised, exc, run, t, nip, solves, frames, plotted>>
    /\ UNCHANGED <<fnvars, cavvars, pulsevars, ampvars, fn1dvars>>
    /\ UNCHANGED xt02vars

\* A handler that swallows every exception: except: pass.
multiplot_except_any ==
    /\ pc = "mp_except"
    /\ pc' = "cell7"
    /\ raised' = "none"
    /\ UNCHANGED <<notebook, gen, gpc, exc, run, t, nip, solves, frames, plotted>>
    /\ UNCHANGED <<fnvars, cavvars, pulsevars, ampvars, fn1dvars>>
    /\ UNCHANGED xt02vars

\* except StopIteration: pass.  Any other exception leaves the function
\* and the cell.
multiplot_except ==
    /\ pc = "mp_except"
    /\ IF raised = "StopIteration"
         THEN pc' = "cell7" /\ exc' = exc
         ELSE pc' = "aborted" /\ exc' = raised
    /\ raised' = "none"
    /\ UNCHANGED <<notebook, gen, gpc, run, t, nip, solves, frames, plotted>>
    /\ UNCHANGED <<fnvars, cavvars, pulsevars, ampvars, fn1dvars>>
    /\ UNCHANGED xt02vars

\* evolve(): nip = 10; u = Function(V); t = 0; the for loop starts.
xt02_evolve_init ==
    /\ notebook = "xt02_heat_2D_square"
    /\ gen = "running" /\ gpc = "start"
    /\ u' = Function
    /\ t' = 0
    /\ n' = 0
    /\ run' = run + 1
    /\ gpc' = "solve"
    /\ UNCHANGED <<notebook, pc, gen, raised, exc, nip, solves, frames, plotted>>
    /\ UNCHANGED <<fnvars, cavvars, pulsevars, ampvars, fn1dvars>>
    /\ UNCHANGED <<u_n, col, figures, num_steps>>

\* A solve that stores its result in the previous-solution variable at once,
\* before the frame of the step is yielded.
xt02_evolve_solve_eager ==
    /\ notebook = "xt02_heat_2D_square"
    /\ gen = "running" /\ gpc = "solve"
    /\ t' = t + 1
    /\ solves' = Append(solves, SolveCall(u_n, n, bc_xt02, "returned"))
    /\ u' = SolveResult(u_n)
    /\ u_n' = SolveResult(u_n)
    /\ gpc' = IF n % nip = 0 THEN "yield" ELSE "assign"
    /\ UNCHANGED <<notebook, pc, gen, raised, exc, run, nip, frames, plotted>>
    /\ UNCHANGED <<fnvars, cavvars, pulsevars, ampvars, fn1dvars>>
    /\ UNCHANGED <<n, col, figures, num_steps>>

\* t += dt; solve(a == L, u, bc) returns.
xt02_evolve_solve ==
    /\ notebook = "xt02_heat_2D_square"
    /\ gen = "running" /\ gpc = "solve"
    /\ t' = t + 1
    /\ solves' = Append(solves, SolveCall(u_n, n, bc_xt02, "returned"))
    /\ u' = SolveResult(u_n)
    /\ gpc' = IF n % nip = 0 THEN "yield" ELSE "assign"
    /\ UNCHANGED <<notebook, pc, gen, raised, exc, run, nip, frames, plotted>>
    /\ UNCHANGED <<fnvars, cavvars, pulsevars, ampvars, fn1dvars>>
    /\ UNCHANGED <<u_n, n, col, figures, num_steps>>

\* t += dt; solve(a == L, u, bc) raises: the generator dies and the
\* exception comes out of next(g).
xt02_evolve_solve_raises ==
    /\ notebook = "xt02_heat_2D_square"
    /\ gen = "running" /\ gpc = "solve"
    /\ t' = t + 1
    /\ solves' = Append(solves, SolveCall(u_n, n, bc_xt02, "raised"))
    /\ gen' = "finished" /\ gpc' = "none"
    /\ raised' = "SolveError"
    /\ pc' = "mp_except"
    /\ UNCHANGED <<notebook, exc, run, nip, frames, plotted>>
    /\ UNCHANGED <<fnvars, cavvars, pulsevars, ampvars, fn1dvars>>
    /\ UNCHANGED xt02vars

\* yield plot(u): the frame is drawn, the generator is suspended and
\* next(g) returns in the consumer.
xt02_evolve_yield ==
    /\ notebook = "xt02_heat_2D_square"
    /\ gen = "running" /\ gpc = "yield"
    /\ plotted' = Append(plotted, Plot(u))
    /\ frames' = Append(frames, Frame(u, n, "loop"))
    /\ gen' = "suspended"
    /\ gpc' = "assign"
    /\ pc' = AfterNext(col)
    /\ col' = col + 1
    /\ UNCHANGED <<notebook, raised, exc, run, t, nip, solves>>
    /\ UNCHANGED <<fnvars, cavvars, pulsevars, ampvars, fn1dvars>>
    /\ UNCHANGED <<u, u_n, n, figures, num_steps>>

\* u_n.assign(u); next iteration of the for loop, or the loop is over.
xt02_evolve_assign ==
    /\ notebook = "xt02_heat_2D_square"
    /\ gen = "running" /\ gpc = "assign"
    /\ u_n' = u
    /\ n' = IF HasNext(n, num_steps) THEN n + 1 ELSE n
    /\ gpc' = IF HasNext(n, num_steps) THEN "solve" ELSE "end"
    /\ UNCHANGED <<notebook, pc, gen, raised, exc, run, t, nip, solves, frames, plotted>>
    /\ UNCHANGED <<fnvars, cavvars, pulsevars, ampvars, fn1dvars>>
    /\ UNCHANGED <<u, col, figures, num_steps>>

\* the generator function returns: next(g) raises StopIteration.
xt02_evolve_return ==
    /\ notebook = "xt02_heat_2D_square"
    /\ gen = "running" /\ gpc = "end"
    /\ gen' = "finished" /\ gpc' = "none"
    /\ raised' = "StopIteration"
    /\ pc' = "mp_except"
    /\ UNCHANGED <<notebook, exc, run, t, nip, solves, frames, plotted>>
    /\ UNCHANGED <<fnvars, cavvars, pulsevars, ampvars, fn1dvars>>
    /\ UNCHANGED xt02vars

\* cell 7: u = Function(V); t = 0; the for loop starts.  The initial
\* condition is not interpolated again.
xt02_cell7 ==
    /\ notebook = "xt02_heat_2D_square" /\ pc = "cell7"
    /\ u' = Function
    /\ t' = 0
    /\ n' = 0
    /\ run' = run + 1
    /\ pc' = "c7_solve"
    /\ UNCHANGED <<notebook, gen, gpc, raised, exc, nip, solves, frames, plotted>>
    /\ UNCHANGED <<fnvars, cavvars, pulsevars, ampvars, fn1dvars>>
    /\ UNCHANGED <<u_n, col, figures, num_steps>>

\* solve(a == L, u, bc) returns.
xt02_cell7_solve ==
    /\ notebook = "xt02_heat_2D_square" /\ pc = "c7_solve"
    /\ solves' = Append(solves, SolveCall(u_n, n, bc_xt02, "returned"))
    /\ u' = SolveResult(u_n)
    /\ pc' = "c7_plot"
    /\ UNCHANGED <<notebook, gen, gpc, raised, exc, run, t, nip, frames, plotted>>
    /\ UNCHANGED <<fnvars, cavvars, pulsevars, ampvars, fn1dvars>>
    /\ UNCHANGED <<u_n, n, col, figures, num_steps>>

\* solve(a == L, u, bc) raises: the cell ends with the exception.
xt02_cell7_solve_raises ==
    /\ notebook = "xt02_heat_2D_square" /\ pc = "c7_solve"
    /\ solves' = Append(solves, SolveCall(u_n, n, bc_xt02, "raised"))
    /\ exc' = "SolveError"
    /\ pc' = "aborted"
    /\ UNCHANGED <<notebook, gen, gpc, raised, run, t, nip, frames, plotted>>
    /\ UNCHANGED <<fnvars, cavvars, pulsevars, ampvars, fn1dvars>>
    /\ UNCHANGED xt02vars

\* plot(u); plt.savefig(...)
xt02_cell7_plot ==
    /\ notebook = "xt02_heat_2D_square" /\ pc = "c7_plot"
    /\ plotted' = Append(plotted, Plot(u))
    /\ frames' = Append(frames, Frame(u, n, "loop"))
    /\ pc' = "c7_assign"
    /\ UNCHANGED <<notebook, gen, gpc, raised, exc, run, t, nip, solves>>
    /\ UNCHANGED <<fnvars, cavvars, pulsevars, ampvars, fn1dvars>>
    /\ UNCHANGED xt02vars

\* t += dt; u_n.assign(u); next iteration, or the notebook's loops are over.
xt02_cell7_assign ==
    /\ notebook = "xt02_heat_2D_square" /\ pc = "c7_assign"
    /\ t' = t + 1
    /\ u_n' = u
    /\ n' = IF HasNext(n, num_steps) THEN n + 1 ELSE n
    /\ pc' = IF HasNext(n, num_steps) THEN "c7_solve" ELSE "done"
    /\ UNCHANGED <<notebook, gen, gpc, raised, exc, run, nip, solves, frames, plotted>>
    /\ UNCHANGED <<fnvars, cavvars, pulsevars, ampvars, fn1dvars>>
    /\ UNCHANGED <<u, col, figures, num_steps>>

\* ------------------------------------------------------------ fn_simp_06d
\* Is the photon density of field f nonzero somewhere inside the crystal?
\* nph_init is nonzero for |x - p_x0| < p_hw, Dcr_init for |x - c_x0| < c_hw,
\* and every time step carries the pulse cm * dt = cm * T / n_steps to the
\* right.  Lengths are in mesh cells ds = 1 / mesh_d, scaled by
\* mesh_d * n_steps to stay in the integers.
PulseInCrystal(f) ==
    LET scale == mesh_d * n_steps
        shift == cm * T * f.steps
        front == (p_x0 + p_hw) * scale + shift
        tail  == (p_x0 - p_hw) * scale + shift
    IN  /\ f.src = "nph_init"
        /\ front > (c_x0 - c_hw) * scale
        /\ tail < (c_x0 + c_hw) * scale

\* cell 3: parameters, mesh, boundary conditions, initial conditions.
fn_cell3 ==
    /\ notebook = "fn_simp_06d" /\ pc = "cell3"
    /\ nph_j' = interpolate("nph_init")
    /\ Dcr_j' = interpolate("Dcr_init")
    /\ pc' = "cell5"
    /\ UNCHANGED <<notebook, gen, gpc, raised, exc, run, t, nip, solves, frames, plotted>>
    /\ UNCHANGED <<nph, Dcr, ii, idx, n_steps>>
    /\ UNCHANGED <<xt02vars, cavvars, pulsevars, ampvars, fn1dvars>>

\* cell 5: nph = TrialFunction(V); Dcr = TrialFunction(V); the forms a, L.
fn_cell5 ==
    /\ notebook = "fn_simp_06d" /\ pc = "cell5"
    /\ nph' = TrialFunction
    /\ Dcr' = TrialFunction
    /\ pc' = "cell8"
    /\ UNCHANGED <<notebook, gen, gpc, raised, exc, run, t, nip, solves, frames, plotted>>
    /\ UNCHANGED <<nph_j, Dcr_j, ii, idx, n_steps>>
    /\ UNCHANGED <<xt02vars, cavvars, pulsevars, ampvars, fn1dvars>>

\* cell 8: nph = Function(V); Dcr = Function(V); Dcr.assign(Dcr_j); t = 0;
\* the for loop starts.
fn_cell8 ==
    /\ notebook = "fn_simp_06d" /\ pc = "cell8"
    /\ nph' = Function
    /\ Dcr' = Dcr_j
    /\ t' = 0
    /\ ii' = 0
    /\ run' = run + 1
    /\ pc' = "c8_solve"
    /\ UNCHANGED <<notebook, gen, gpc, raised, exc, nip, solves, frames, plotted>>
    /\ UNCHANGED <<nph_j, Dcr_j, idx, n_steps>>
    /\ UNCHANGED <<xt02vars, cavvars, pulsevars, ampvars, fn1dvars>>

\* t += dt; solve(a == L, nph, bc) returns: only nph is written.
fn_cell8_solve ==
    /\ notebook = "fn_simp_06d" /\ pc = "c8_solve"
    /\ t' = t + 1
    /\ solves' = Append(solves, SolveCall(nph_j, ii, bc, "returned"))
    /\ nph' = SolveResult(nph_j)
    /\ pc' = IF ii % nip = 0 THEN "c8_plot" ELSE "c8_assign"
    /\ UNCHANGED <<notebook, gen, gpc, raised, exc, run, nip, frames, plotted>>
    /\ UNCHANGED <<nph_j, Dcr, Dcr_j, ii, idx, n_steps>>
    /\ UNCHANGED <<xt02vars, cavvars, pulsevars, ampvars, fn1dvars>>

\* t += dt; solve(a == L, nph, bc) raises: the cell ends with the exception.
fn_cell8_solve_raises ==
    /\ notebook = "fn_simp_06d" /\ pc = "c8_solve"
    /\ t' = t + 1
    /\ solves' = Append(solves, SolveCall(nph_j, ii, bc, "raised"))
    /\ exc' = "SolveError"
    /\ pc' = "aborted"
    /\ UNCHANGED <<notebook, gen, gpc, raised, run, nip, frames, plotted>>
    /\ UNCHANGED <<fnvars, xt02vars, cavvars, pulsevars, ampvars, fn1dvars>>

\* plot(Dcr / (c_D0 / p_n0))
fn_cell8_plot ==
    /\ notebook = "fn_simp_06d" /\ pc = "c8_plot"
    /\ plotted' = Append(plotted, Plot(Dcr))
    /\ frames' = Append(frames, Frame(Dcr, ii, "loop"))
    /\ pc' = "c8_assign"
    /\ UNCHANGED <<notebook, gen, gpc, raised, exc, run, t, nip, solves>>
    /\ UNCHANGED <<fnvars, xt02vars, cavvars, pulsevars, ampvars, fn1dvars>>

\* nph_j.assign(nph); Dcr_j.assign(Dcr); next iteration, or the loop is over.
fn_cell8_assign ==
    /\ notebook = "fn_simp_06d" /\ pc = "c8_assign"
    /\ nph_j' = nph
    /\ Dcr_j' = Dcr
    /\ ii' = IF HasNext(ii, n_steps) THEN ii + 1 ELSE ii
    /\ pc' = IF HasNext(ii, n_steps) THEN "c8_solve" ELSE "c8_finish"
    /\ UNCHANGED <<notebook, gen, gpc, raised, exc, run, t, nip, solves, frames, plotted>>
    /\ UNCHANGED <<nph, Dcr, idx, n_steps>>
    /\ UNCHANGED <<xt02vars, cavvars, pulsevars, ampvars, fn1dvars>>

\* after the loop: plot(Dcr / (c_D0 / p_n0), ls=':', ...); plt.show()
fn_cell8_finish ==
    /\ notebook = "fn_simp_06d" /\ pc = "c8_finish"
    /\ plotted' = Append(plotted, Plot(Dcr))
    /\ pc' = "cell10"
    /\ UNCHANGED <<notebook, gen, gpc, raised, exc, run, t, nip, solves, frames>>
    /\ UNCHANGED <<fnvars, xt02vars, cavvars, pulsevars, ampvars, fn1dvars>>

\* cell 10: def evolve()
fn_cell10 ==
    /\ notebook = "fn_simp_06d" /\ pc = "cell10"
    /\ pc' = "cell11"
    /\ UNCHANGED <<notebook, gen, gpc, raised, exc, run, t, nip, solves, frames, plotted>>
    /\ UNCHANGED <<fnvars, xt02vars, cavvars, pulsevars, ampvars, fn1dvars>>

\* cell 11: plt.figure(...); idx = 0; evolve() creates the generator the
\* for statement iterates over.
fn_cell11 ==
    /\ notebook = "fn_simp_06d" /\ pc = "cell11"
    /\ idx' = 0
    /\ gen' = "created" /\ gpc' = "start"
    /\ pc' = "c11_next"
    /\ UNCHANGED <<notebook, raised, exc, run, t, nip, solves, frames, plotted>>
    /\ UNCHANGED <<nph, nph_j, Dcr, Dcr_j, ii, n_steps>>
    /\ UNCHANGED <<xt02vars, cavvars, pulsevars, ampvars, fn1dvars>>

\* for u in evolve(): the for statement asks the generator for its next
\* item and waits for it.
fn_cell11_next ==
    /\ notebook = "fn_simp_06d" /\ pc = "c11_next"
    /\ gen \in {"created", "suspended"}
    /\ gen' = "running"
    /\ pc' = "c11_blocked"
    /\ UNCHANGED <<notebook, gpc, raised, exc, run, t, nip, solves, frames, plotted>>
    /\ UNCHANGED <<fnvars, xt02vars, cavvars, pulsevars, ampvars, fn1dvars>>

\* A consumer that keeps the frames for later instead of plotting each
\* one as it arrives.
fn_cell11_body_deferred ==
    /\ notebook = "fn_simp_06d" /\ pc = "c11_body"
    /\ idx + 1 <= n_rows * n_cols
    /\ idx' = idx + 1
    /\ pc' = "c11_next"
    /\ UNCHANGED <<notebook, gen, gpc, raised, exc, run, t, nip, solves, frames, plotted>>
    /\ UNCHANGED <<nph, nph_j, Dcr, Dcr_j, ii, n_steps>>
    /\ UNCHANGED <<xt02vars, cavvars, pulsevars, ampvars, fn1dvars>>

\* idx += 1; plt.subplot(n_rows, n_cols, idx); plot(u).  u is the
\* generator's nph object itself.
fn_cell11_body ==
    /\ notebook = "fn_simp_06d" /\ pc = "c11_body"
    /\ idx + 1 <= n_rows * n_cols
    /\ idx' = idx + 1
    /\ plotted' = Append(plotted, Plot(nph))
    /\ pc' = "c11_next"
    /\ UNCHANGED <<notebook, gen, gpc, raised, exc, run, t, nip, solves, frames>>
    /\ UNCHANGED <<nph, nph_j, Dcr, Dcr_j, ii, n_steps>>
    /\ UNCHANGED <<xt02vars, cavvars, pulsevars, ampvars, fn1dvars>>

\* idx += 1; plt.subplot(n_rows, n_cols, idx) raises ValueError for an
\* index beyond the grid: the cell ends, the generator stays suspended.
fn_cell11_body_raises ==
    /\ notebook = "fn_simp_06d" /\ pc = "c11_body"
    /\ idx + 1 > n_rows * n_cols
    /\ idx' = idx + 1
    /\ exc' = "ValueError"
    /\ pc' = "aborted"
    /\ UNCHANGED <<notebook, gen, gpc, raised, run, t, nip, solves, frames, plotted>>
    /\ UNCHANGED <<nph, nph_j, Dcr, Dcr_j, ii, n_steps>>
    /\ UNCHANGED <<xt02vars, cavvars, pulsevars, ampvars, fn1dvars>>

\* The for statement ends on StopIteration; any other exception leaves
\* the cell.
fn_cell11_except ==
    /\ notebook = "fn_simp_06d" /\ pc = "c11_except"
    /\ IF raised = "StopIteration"
         THEN pc' = "done" /\ exc' = exc
         ELSE pc' = "aborted" /\ exc' = raised
    /\ raised' = "none"
    /\ UNCHANGED <<notebook, gen, gpc, run, t, nip, solves, frames, plotted>>
    /\ UNCHANGED <<fnvars, xt02vars, cavvars, pulsevars, ampvars, fn1dvars>>

\* evolve(): nph = Function(V); t = 0; the for loop starts.
fn_evolve_init ==
    /\ notebook = "fn_simp_06d"
    /\ gen = "running" /\ gpc = "start"
    /\ nph' = Function
    /\ t' = 0
    /\ ii' = 0
    /\ run' = run + 1
    /\ gpc' = "solve"
    /\ UNCHANGED <<notebook, pc, gen, raised, exc, nip, solves, frames, plotted>>
    /\ UNCHANGED <<nph_j, Dcr, Dcr_j, idx, n_steps>>
    /\ UNCHANGED <<xt02vars, cavvars, pulsevars, ampvars, fn1dvars>>

\* t += dt; solve(a == L, nph, bc) returns.
fn_evolve_solve ==
    /\ notebook = "fn_simp_06d"
    /\ gen = "running" /\ gpc = "solve"
    /\ t' = t + 1
    /\ solves' = Append(solves, SolveCall(nph_j, ii, bc, "returned"))
    /\ nph' = SolveResult(nph_j)
    /\ gpc' = IF ii % nip = 0 THEN "yield" ELSE "assign"
    /\ UNCHANGED <<notebook, pc, gen, raised, exc, run, nip, frames, plotted>>
    /\ UNCHANGED <<nph_j, Dcr, Dcr_j, ii, idx, n_steps>>
    /\ UNCHANGED <<xt02vars, cavvars, pulsevars, ampvars, fn1dvars>>

\* t += dt; solve(a == L, nph, bc) raises: the generator dies and the
\* exception comes out of the for statement's next.
fn_evolve_solve_raises ==
    /\ notebook = "fn_simp_06d"
    /\ gen = "running" /\ gpc = "solve"
    /\ t' = t + 1
    /\ solves' = Append(solves, SolveCall(nph_j, ii, bc, "raised"))
    /\ gen' = "finished" /\ gpc' = "none"
    /\ raised' = "SolveError"
    /\ pc' = "c11_except"
    /\ UNCHANGED <<notebook, exc, run, nip, frames, plotted>>
    /\ UNCHANGED <<fnvars, xt02vars, cavvars, pulsevars, ampvars, fn1dvars>>

\* yield nph inside the loop: the generator is suspended and the body of
\* the for statement runs.
fn_evolve_yield ==
    /\ notebook = "fn_simp_06d"
    /\ gen = "running" /\ gpc = "yield"
    /\ frames' = Append(frames, Frame(nph, ii, "loop"))
    /\ gen' = "suspended"
    /\ gpc' = "assign"
    /\ pc' = "c11_body"
    /\ UNCHANGED <<notebook, raised, exc, run, t, nip, solves, plotted>>
    /\ UNCHANGED <<fnvars, xt02vars, cavvars, pulsevars, ampvars, fn1dvars>>

\* nph_j.assign(nph); next iteration, or the loop is over.
fn_evolve_assign ==
    /\ notebook = "fn_simp_06d"
    /\ gen = "running" /\ gpc = "assign"
    /\ nph_j' = nph
    /\ ii' = IF HasNext(ii, n_steps) THEN ii + 1 ELSE ii
    /\ gpc' = IF HasNext(ii, n_steps) THEN "solve" ELSE "final"
    /\ UNCHANGED <<notebook, pc, gen, raised, exc, run, t, nip, solves, frames, plotted>>
    /\ UNCHANGED <<nph, Dcr, Dcr_j, idx, n_steps>>
    /\ UNCHANGED <<xt02vars, cavvars, pulsevars, ampvars, fn1dvars>>

\* The condition of the statement after the loop: if ii % nip == 0.
FinalEnvelope == ii % nip = 0

\* after the loop: if ii % nip == 0: yield nph
fn_evolve_final ==
    /\ notebook = "fn_simp_06d"
    /\ gen = "running" /\ gpc = "final"
    /\ gpc' = "end"
    /\ IF FinalEnvelope
         THEN /\ frames' = Append(frames, Frame(nph, ii, "final"))
              /\ gen' = "suspended"
              /\ pc' = "c11_body"
         ELSE UNCHANGED <<frames, gen, pc>>
    /\ UNCHANGED <<notebook, raised, exc, run, t, nip, solves, plotted>>
    /\ UNCHANGED <<fnvars, xt02vars, cavvars, pulsevars, ampvars, fn1dvars>>

\* the generator function returns: the for statement gets StopIteration.
fn_evolve_return ==
    /\ notebook = "fn_simp_06d"
    /\ gen = "running" /\ gpc = "end"
    /\ gen' = "finished" /\ gpc' = "none"
    /\ raised' = "StopIteration"
    /\ pc' = "c11_except"
    /\ UNCHANGED <<notebook, exc, run, t, nip, solves, frames, plotted>>
    /\ UNCHANGED <<fnvars, xt02vars, cavvars, pulsevars, ampvars, fn1dvars>>

\* ------------------------------------------------------ cavity propagation
\* Wavefronts are objects on a heap; cavitywfrList holds references.  A
\* wavefront is described by the beamlines it went through (path), its
\* position z along the cavity axis in units of Lc/2 (0 is the center, 1
\* the right mirror, -1 the left mirror) and its direction of travel.

\* createGsnSrcSRW(...): the initial mode at the center of the cavity.
createGsnSrcSRW == [path |-> <<>>, z |-> 0, dir |-> 1]

\* createDriftLensBL(Lc, df): a drift of Lc/2, then the thin lens that
\* stands for the mirror.  createDriftBL(Lc): a drift of Lc/2.
createDriftLensBL == <<"drift", "lens">>
createDriftBL == <<"drift">>

Beamline(name) ==
    IF name = "propagateDrift" THEN createDriftBL ELSE createDriftLensBL

\* One optical element acting on a wavefront: a drift moves it Lc/2 along
\* its direction of travel, the mirror lens sends it back.
ApplyElement(w, el) ==
    IF el = "drift" THEN [w EXCEPT !.z = @ + w.dir]
                    ELSE [w EXCEPT !.dir = 0 - @]

RECURSIVE ApplyElements(_, _)
ApplyElements(w, els) ==
    IF els = <<>> THEN w
    ELSE ApplyElements(ApplyElement(w, Head(els)), Tail(els))

\* Python's list[k], k counted from 0.
Item(list, k) == list[k + 1]

\* A copy that is no copy: another reference to the same object.
deepcopy_alias(h, ref) == [heap |-> h, ref |-> ref]

\* deepcopy(obj): a new object with the same contents.
deepcopy(h, ref) == [heap |-> Append(h, h[ref]), ref |-> Len(h) + 1]

\* A wavefront after the beamline called name.
Propagated(w, name) ==
    [ApplyElements(w, Beamline(name)) EXCEPT !.path = Append(@, name)]

\* srwl.PropagElecField(wfr, beamline): the wavefront object is changed
\* in place.
PropagElecField(h, ref, name) == [h EXCEPT ![ref] = Propagated(@, name)]

\* The beamlines of one pass, in the order the loop body applies them.
PassOrder == <<"propagateRight", "propagateDrift", "propagateLeft", "propagateDrift">>

\* cell 4: wfrCenter0 = createGsnSrcSRW(...)
cavity_cell4 ==
    /\ notebook = "cavity" /\ pc = "cell4"
    /\ heap' = <<createGsnSrcSRW>>
    /\ pc' = "cell5"
    /\ UNCHANGED <<notebook, gen, gpc, raised, exc, run, t, nip, solves, frames, plotted>>
    /\ UNCHANGED <<npass, i, cavitywfrList, wfrplot>>
    /\ UNCHANGED <<xt02vars, fnvars, pulsevars, ampvars, fn1dvars>>

\* cell 5: propagateRight, propagateLeft, propagateDrift are built.
cavity_cell5 ==
    /\ notebook = "cavity" /\ pc = "cell5"
    /\ pc' = "cell6"
    /\ UNCHANGED <<notebook, gen, gpc, raised, exc, run, t, nip, solves, frames, plotted>>
    /\ UNCHANGED <<xt02vars, fnvars, cavvars, pulsevars, ampvars, fn1dvars>>

\* cell 6: cavitywfrList = [wfrCenter0]; npass = ...; the for loop starts.
cavity_cell6 ==
    /\ notebook = "cavity" /\ pc = "cell6"
    /\ cavitywfrList' = <<1>>
    /\ i' = 0
    /\ pc' = "c6_pass"
    /\ UNCHANGED <<notebook, gen, gpc, raised, exc, run, t, nip, solves, frames, plotted>>
    /\ UNCHANGED <<npass, heap, wfrplot>>
    /\ UNCHANGED <<xt02vars, fnvars, pulsevars, ampvars, fn1dvars>>

\* The body of the for loop, one pass through the cavity.
cavity_pass ==
    /\ notebook = "cavity" /\ pc = "c6_pass"
    /\ LET c1 == deepcopy(heap, cavitywfrList[Len(cavitywfrList)])
           wfr == c1.ref
           h1 == PropagElecField(c1.heap, wfr, PassOrder[1])
           c2 == deepcopy(h1, wfr)
           wfr2 == c2.ref
           h2 == PropagElecField(c2.heap, wfr2, PassOrder[2])
           c3 == deepcopy(h2, wfr2)
           wfr3 == c3.ref
           h3 == PropagElecField(c3.heap, wfr3, PassOrder[3])
           c4 == deepcopy(h3, wfr3)
           wfr4 == c4.ref
           h4 == PropagElecField(c4.heap, wfr4, PassOrder[4])
       IN  /\ heap' = h4
           /\ cavitywfrList' = cavitywfrList \o <<wfr, wfr2, wfr3, wfr4>>
    /\ i' = IF HasNext(i, npass) THEN i + 1 ELSE i
    /\ pc' = IF HasNext(i, npass) THEN "c6_pass" ELSE "cell7"
    /\ UNCHANGED <<notebook, gen, gpc, raised, exc, run, t, nip, solves, frames, plotted>>
    /\ UNCHANGED <<npass, wfrplot>>
    /\ UNCHANGED <<xt02vars, fnvars, pulsevars, ampvars, fn1dvars>>

\* cell 7: the rms sizes of every wavefront of the list are printed.
cavity_cell7 ==
    /\ notebook = "cavity" /\ pc = "cell7"
    /\ pc' = "cell8"
    /\ UNCHANGED <<notebook, gen, gpc, raised, exc, run, t, nip, solves, frames, plotted>>
    /\ UNCHANGED <<xt02vars, fnvars, cavvars, pulsevars, ampvars, fn1dvars>>

\* cell 8: wavefrontToPlot = ... (0 to 3*npass);
\* wfrplot = cavitywfrList[wavefrontToPlot]; its intensity is plotted.
cavity_cell8 ==
    /\ notebook = "cavity" /\ pc = "cell8"
    /\ \E wavefrontToPlot \in 0..(3 * npass) :
          wfrplot' = Item(cavitywfrList, wavefrontToPlot)
    /\ pc' = "done"
    /\ UNCHANGED <<notebook, gen, gpc, raised, exc, run, t, nip, solves, frames, plotted>>
    /\ UNCHANGED <<npass, i, heap, cavitywfrList>>
    /\ UNCHANGED <<xt02vars, fnvars, pulsevars, ampvars, fn1dvars>>

\* ------------------------------------------------------ laser_amp_test_01
\* The values tried for the parameters that the cells set by literals.
Amp_gamma_ts_1 == {Float(1), Float(9)}
Amp_gamma_ts_2 == {Float(1)}
Amp_sigma_ts == {Unit \div 2, Unit}
Amp_delta_ts == {Float(1), Float(2)}
Amp_n_ph_ts == {Float(1)}
Amp_tau_pulse == {Float(1)}
Amp_length_ts == {(9 * Unit) \div 100, (18 * Unit) \div 100}

\* cell 2: gamma_ts_1, gamma_ts_2, gamma_ts, sigma_ts, delta_ts, n_ph_ts
amp_cell2 ==
    /\ notebook = "laser_amp_test_01" /\ pc = "cell2"
    /\ \E gamma_ts_1 \in Amp_gamma_ts_1, gamma_ts_2 \in Amp_gamma_ts_2 :
          gamma_ts' = Add(Float(1), Div(gamma_ts_1, gamma_ts_2))
    /\ sigma_ts' \in Amp_sigma_ts
    /\ delta_ts' \in Amp_delta_ts
    /\ n_ph_ts' \in Amp_n_ph_ts
    /\ pc' = "cell3"
    /\ UNCHANGED <<notebook, gen, gpc, raised, exc, run, t, nip, solves, frames, plotted>>
    /\ UNCHANGED <<n_ph_0, tau_pulse, eta_pulse, length_ts>>
    /\ UNCHANGED <<delta_0, dt, dz, t_data, z_data, n_data, j_data>>
    /\ UNCHANGED <<xt02vars, fnvars, cavvars, fn1dvars>>

\* cell 3: n_ph_0, delta_0, tau_pulse, eta_pulse, length_ts, the empty
\* arrays t_data and z_data, dt and dz; the for loop starts.
amp_cell3 ==
    /\ notebook = "laser_amp_test_01" /\ pc = "cell3"
    /\ n_ph_0' = n_ph_ts
    /\ delta_0' = delta_ts
    /\ \E tau \in Amp_tau_pulse :
          /\ tau_pulse' = tau
          /\ eta_pulse' = Mul(Mul(n_ph_ts, speed_of_light), tau)
          /\ dt' = Div(Sub(tau, time_0), Float(num_points - 1))
    /\ \E len \in Amp_length_ts :
          /\ length_ts' = len
          /\ dz' = Div(len, Float(num_points - 1))
    /\ t_data' = np_zeros(num_points)
    /\ z_data' = np_zeros(num_points)
    /\ i' = 0
    /\ pc' = "c3_loop"
    /\ UNCHANGED <<notebook, gen, gpc, raised, exc, run, t, nip, solves, frames, plotted>>
    /\ UNCHANGED <<gamma_ts, sigma_ts, delta_ts, n_ph_ts, n_data, j_data>>
    /\ UNCHANGED <<npass, heap, cavitywfrList, wfrplot>>
    /\ UNCHANGED <<xt02vars, fnvars, fn1dvars>>

\* for i in range(num_points): t_data[i] = time_0 + i*dt; z_data[i] = i*dz
amp_cell3_loop ==
    /\ notebook = "laser_amp_test_01" /\ pc = "c3_loop"
    /\ t_data' = [t_data EXCEPT ![i + 1] = Add(time_0, Mul(Float(i), dt))]
    /\ z_data' = [z_data EXCEPT ![i + 1] = Mul(Float(i), dz)]
    /\ i' = IF HasNext(i, num_points) THEN i + 1 ELSE i
    /\ pc' = IF HasNext(i, num_points) THEN "c3_loop" ELSE "cell5"
    /\ UNCHANGED <<notebook, gen, gpc, raised, exc, run, t, nip, solves, frames, plotted>>
    /\ UNCHANGED <<n_ph_ts, delta_0, dt, dz, n_data, j_data>>
    /\ UNCHANGED <<npass, heap, cavitywfrList, wfrplot>>
    /\ UNCHANGED <<xt02vars, fnvars, pulsevars, fn1dvars>>

\* cell 5: plt.figure() ...; n_data = np.zeros(num_points); the loop starts.
amp_cell5 ==
    /\ notebook = "laser_amp_test_01" /\ pc = "cell5"
    /\ n_data' = np_zeros(num_points)
    /\ j_data' = 0
    /\ pc' = "c5_loop"
    /\ UNCHANGED <<notebook, gen, gpc, raised, exc, run, t, nip, solves, frames, plotted>>
    /\ UNCHANGED <<n_ph_ts, delta_0, dt, dz, t_data, z_data>>
    /\ UNCHANGED <<xt02vars, fnvars, cavvars, pulsevars, fn1dvars>>

\* n_ph_0 / (1. - np.exp(-gamma_ts*sigma_ts*eta_pulse
\*                        *(t_data[1]-z_data[j]/c)/tau_pulse))
PhotonDensity(k) ==
    Div(n_ph_0,
        Sub(Float(1),
            np_exp(Div(Mul(Mul(Mul(Neg(gamma_ts), sigma_ts), eta_pulse),
                           Sub(Item(t_data, 1),
                               Div(Item(z_data, k), speed_of_light))),
                       tau_pulse))))

\* for j in range(num_points): n_data[j] = ...
amp_cell5_loop ==
    /\ notebook = "laser_amp_test_01" /\ pc = "c5_loop"
    /\ n_data' = [n_data EXCEPT ![j_data + 1] = PhotonDensity(j_data)]
    /\ j_data' = IF HasNext(j_data, num_points) THEN j_data + 1 ELSE j_data
    /\ pc' = IF HasNext(j_data, num_points) THEN "c5_loop" ELSE "c5_plot"
    /\ UNCHANGED <<notebook, gen, gpc, raised, exc, run, t, nip, solves, frames, plotted>>
    /\ UNCHANGED <<n_ph_ts, delta_0, dt, dz, t_data, z_data>>
    /\ UNCHANGED <<xt02vars, fnvars, cavvars, pulsevars, fn1dvars>>

\* plt.plot(z_data, n_data); plt.show()
amp_cell5_plot ==
    /\ notebook = "laser_amp_test_01" /\ pc = "c5_plot"
    /\ plotted' = Append(plotted, Plot(<<z_data, n_data>>))
    /\ pc' = "done"
    /\ UNCHANGED <<notebook, gen, gpc, raised, exc, run, t, nip, solves, frames>>
    /\ UNCHANGED <<xt02vars, fnvars, cavvars, pulsevars, ampvars, fn1dvars>>

\* ----------------------------------------------------------------- fn1d_02
\* The values tried for the parameters that the cells set by literals.
Fn1d_gamma_ts_1 == {Float(1)}
Fn1d_gamma_ts_2 == {Float(1)}
Fn1d_sigma_ts == {Unit \div 20, Unit \div 2, (3 * Unit) \div 2}
Fn1d_delta_ts_0 == {Float(1), Float(4)}
Fn1d_n_ph_0 == {Unit \div 25, Unit \div 10, Float(1)}
Fn1d_tau_pulse == {Unit \div 100}
Fn1d_length_ts == {Float(1)}

\* cell 2: gamma_ts_1, gamma_ts_2, gamma_ts, sigma_ts, delta_ts_0, n_ph_0
fn1d_cell2 ==
    /\ notebook = "fn1d_02" /\ pc = "cell2"
    /\ \E gamma_ts_1 \in Fn1d_gamma_ts_1, gamma_ts_2 \in Fn1d_gamma_ts_2 :
          gamma_ts' = Add(Float(1), Div(gamma_ts_1, gamma_ts_2))
    /\ sigma_ts' \in Fn1d_sigma_ts
    /\ delta_ts_0' \in Fn1d_delta_ts_0
    /\ n_ph_0' \in Fn1d_n_ph_0
    /\ pc' = "cell3"
    /\ UNCHANGED <<notebook, gen, gpc, raised, exc, run, t, nip, solves, frames, plotted>>
    /\ UNCHANGED <<delta_ts, tau_pulse, eta_pulse, length_ts>>
    /\ UNCHANGED <<epsilon_ts, g_e_max, factor_ts, factor_max, g_e, n_ph>>
    /\ UNCHANGED <<xt02vars, fnvars, cavvars, ampvars>>

\* cell 3 up to the if statement: c_cm, tau_pulse, eta_pulse, length_ts,
\* epsilon_ts, g_e_max, factor_ts, factor_max; g_e = g_e_max; delta_ts = 0.
fn1d_cell3 ==
    /\ notebook = "fn1d_02" /\ pc = "cell3"
    /\ \E tau \in Fn1d_tau_pulse, len \in Fn1d_length_ts :
          LET c_cm == Mul(Float(100), speed_of_light)
              eta == Mul(Mul(n_ph_0, c_cm), tau)
              gmax == Add(Float(1), Div(Div(Mul(delta_ts_0, len), gamma_ts), eta))
          IN  /\ tau_pulse' = tau
              /\ eta_pulse' = eta
              /\ length_ts' = len
              /\ epsilon_ts' = Mul(Mul(gamma_ts, sigma_ts), eta)
              /\ g_e_max' = gmax
              /\ factor_ts' = Mul(Mul(sigma_ts, delta_ts_0), len)
              /\ factor_max' = np_log(gmax)
              /\ g_e' = gmax
    /\ delta_ts' = Float(0)
    /\ pc' = "c3_if"
    /\ UNCHANGED <<notebook, gen, gpc, raised, exc, run, t, nip, solves, frames, plotted>>
    /\ UNCHANGED <<gamma_ts, sigma_ts, n_ph_0, delta_ts_0, n_ph>>
    /\ UNCHANGED <<xt02vars, fnvars, cavvars, ampvars>>

\* np.log(1.+np.exp(factor_ts)*(np.exp(epsilon_ts)-1.))/epsilon_ts
LogGain ==
    Div(np_log(Add(Float(1),
                   Mul(np_exp(factor_ts), Sub(np_exp(epsilon_ts), Float(1))))),
        epsilon_ts)

\* delta_ts_0 - (gamma_ts*eta_pulse/length_ts) * (g - 1.)
RemainingInversion(g) ==
    Sub(delta_ts_0,
        Mul(Div(Mul(gamma_ts, eta_pulse), length_ts), Sub(g, Float(1))))

\* if factor_ts < factor_max: g_e = ...; delta_ts = ...
fn1d_cell3_if ==
    /\ notebook = "fn1d_02" /\ pc = "c3_if"
    /\ IF factor_ts < factor_max
         THEN /\ g_e' = LogGain
              /\ delta_ts' = RemainingInversion(LogGain)
         ELSE UNCHANGED <<g_e, delta_ts>>
    /\ pc' = "c3_n_ph"
    /\ UNCHANGED <<notebook, gen, gpc, raised, exc, run, t, nip, solves, frames, plotted>>
    /\ UNCHANGED <<gamma_ts, sigma_ts, n_ph_0, tau_pulse, eta_pulse, length_ts>>
    /\ UNCHANGED <<delta_ts_0, epsilon_ts, g_e_max, factor_ts, factor_max, n_ph>>
    /\ UNCHANGED <<xt02vars, fnvars, cavvars, ampvars>>

\* n_ph = g_e * n_ph_0; the results are printed.
fn1d_cell3_n_ph ==
    /\ notebook = "fn1d_02" /\ pc = "c3_n_ph"
    /\ n_ph' = Mul(g_e, n_ph_0)
    /\ pc' = "done"
    /\ UNCHANGED <<notebook, gen, gpc, raised, exc, run, t, nip, solves, frames, plotted>>
    /\ UNCHANGED <<delta_ts_0, epsilon_ts, g_e_max, factor_ts, factor_max, g_e>>
    /\ UNCHANGED <<xt02vars, fnvars, cavvars, pulsevars, ampvars>>

Next ==
    \/ xt02_cell4
    \/ xt02_cell5
    \/ multiplot_figure
    \/ multiplot_next
    \/ multiplot_except
    \/ xt02_evolve_init
    \/ xt02_evolve_solve
    \/ xt02_evolve_solve_raises
    \/ xt02_evolve_yield
    \/ xt02_evolve_assign
    \/ xt02_evolve_return
    \/ xt02_cell7
    \/ xt02_cell7_solve
    \/ xt02_cell7_solve_raises
    \/ xt02_cell7_plot
    \/ xt02_cell7_assign
    \/ fn_cell3
    \/ fn_cell5
    \/ fn_cell8
    \/ fn_cell8_solve
    \/ fn_cell8_solve_raises
    \/ fn_cell8_plot
    \/ fn_cell8_assign
    \/ fn_cell8_finish
    \/ fn_cell10
    \/ fn_cell11
    \/ fn_cell11_next
    \/ fn_cell11_body
    \/ fn_cell11_body_raises
    \/ fn_cell11_except
    \/ fn_evolve_init
    \/ fn_evolve_solve
    \/ fn_evolve_solve_raises
    \/ fn_evolve_yield
    \/ fn_evolve_assign
    \/ fn_evolve_final
    \/ fn_evolve_return
    \/ cavity_cell4
    \/ cavity_cell5
    \/ cavity_cell6
    \/ cavity_pass
    \/ cavity_cell7
    \/ cavity_cell8
    \/ amp_cell2
    \/ amp_cell3
    \/ amp_cell3_loop
    \/ amp_cell5
    \/ amp_cell5_loop
    \/ amp_cell5_plot
    \/ fn1d_cell2
    \/ fn1d_cell3
    \/ fn1d_cell3_if
    \/ fn1d_cell3_n_ph

Spec == Init /\ [][Next]_vars
\* ------------------------------------------------------------ properties
TimeStepping == notebook \in {"xt02_heat_2D_square", "fn_simp_06d"}

\* the number of time steps of the notebook being executed
Steps == IF notebook = "xt02_heat_2D_square" THEN num_steps ELSE n_steps

\* the previous-solution variable, and the profile it is interpolated from
PrevSolution == IF notebook = "xt02_heat_2D_square" THEN u_n ELSE nph_j
InitialProfile ==
    IF notebook = "xt02_heat_2D_square" THEN interpolate("u_0")
                                        ELSE interpolate("nph_init")

\* The first time-stepping loop of the notebook has run to completion; so
\* has the second.
FirstRunOver == run >= 2 \/ pc \in {"cell7", "c8_finish", "cell10", "cell11"}
SecondRunOver == pc = "done"

\* the entries of a log that belong to run r
OfRun(log, r) == SelectSeq(log, LAMBDA e : e.run = r)

\* C1: in every time-stepping loop the j-th call to solve of a run is the
\* call of step j-1 (one solve per step, none skipped, none repeated), and
\* a run that completes has made exactly Steps calls: Steps after the first
\* loop, 2 * Steps after both.
C1_OneSolvePerStep ==
    TimeStepping =>
        /\ \A j \in 1..Len(solves) :
              /\ solves[j].run = ((j - 1) \div Steps) + 1
              /\ solves[j].step = (j - 1) % Steps
        /\ Len(solves) <= 2 * Steps
        /\ FirstRunOver => Len(solves) >= Steps
        /\ (FirstRunOver /\ run = 1) => Len(solves) = Steps
        /\ SecondRunOver => Len(solves) = 2 * Steps

C1_Witness ==
    /\ notebook = "xt02_heat_2D_square" /\ pc = "done"
    /\ num_steps = num_steps_xt02
    /\ Len(OfRun(solves, 1)) = num_steps_xt02
    /\ Len(OfRun(solves, 2)) = num_steps_xt02

\* The loops that plot or yield every nip steps: evolve() of
\* xt02_heat_2D_square (run 1), the cell-8 loop and evolve() of fn_simp_06d.
Periodic(r) == notebook = "fn_simp_06d" \/ (notebook = "xt02_heat_2D_square" /\ r = 1)

\* ceil(a / b)
CeilDiv(a, b) == (a + b - 1) \div b

\* the frames of run r produced inside its loop
LoopFrames(r) == SelectSeq(frames, LAMBDA f : f.run = r /\ f.at = "loop")

\* Run r has made its last in-loop frame.
RunOver(r) == IF r = 1 THEN FirstRunOver ELSE SecondRunOver

\* C2 (as claimed): in the periodically plotting loops the k-th frame made
\* inside the loop is the frame of step (k-1) * nip, made after that step's
\* solve; a completed run has made ceil(Steps / nip) of them; and the first
\* frame shows the solution after the first step, not the initial condition.
C2_FramesEveryNip ==
    TimeStepping =>
        \A r \in 1..2 :
            Periodic(r) =>
                LET fs == LoopFrames(r)
                    ss == OfRun(solves, r)
                IN  /\ \A k \in 1..Len(fs) :
                          /\ fs[k].step = (k - 1) * nip
                          /\ Len(ss) > fs[k].step
                    /\ RunOver(r) => Len(fs) = CeilDiv(Steps, nip)
                    /\ Len(fs) >= 1 =>
                          /\ fs[1].val = SolveResult(ss[1].prev)
                          /\ fs[1].val.steps >= 1

\* C3 (as claimed): at the first solve of every run the previous-solution
\* variable is the interpolated initial profile.
C3_RunsStartFromInitialCondition ==
    TimeStepping =>
        \A j \in 1..Len(solves) :
            solves[j].step = 0 => solves[j].prev = InitialProfile
\* C4 (as claimed): the crystal is dynamic: once a step has been completed
\* whose photon density is nonzero inside the crystal, the previous-step
\* inversion Dcr_j is no longer the initial profile Dcr_init.
C4_DynamicCrystal ==
    notebook = "fn_simp_06d" =>
        ((nph_j.steps >= 1 /\ PulseInCrystal(nph_j))
            => Dcr_j # interpolate("Dcr_init"))

\* C5 (as claimed): every solve of fn_simp_06d gets the Dirichlet condition
\* of the left edge and none for the right edge.
C5_RightEdgeFree ==
    notebook = "fn_simp_06d" =>
        \A j \in 1..Len(solves) :
            /\ bc_L \in solves[j].bc
            /\ bc_R \notin solves[j].bc

\* C6 (as claimed): when evolve() of fn_simp_06d has been consumed to the
\* end, the last frame it yielded is the solution after the final step
\* (step n_steps - 1), a frame is yielded after the loop only if that step
\* was not yielded inside the loop, and no step is yielded twice.
C6_FinalEnvelopeWhenNecessary ==
    (notebook = "fn_simp_06d" /\ pc = "done") =>
        LET ys == OfRun(frames, 2)
        IN  /\ Len(ys) >= 1
            /\ ys[Len(ys)].step = n_steps - 1
            /\ ys[Len(ys)].val = nph
            /\ \A a, b \in 1..Len(ys) : a # b => ys[a].step # ys[b].step
            /\ \A a \in 1..Len(ys) :
                  ys[a].at = "final" =>
                      \A b \in 1..Len(ys) :
                          ys[b].at = "loop" => ys[b].step # n_steps - 1

\* C7 (as claimed): after the propagation loop the list holds 3 * npass + 1
\* wavefronts, indices 0 to 3 * npass.
C7_ThreePerPass ==
    (notebook = "cavity" /\ pc \in {"cell7", "cell8", "done"}) =>
        Len(cavitywfrList) = 3 * npass + 1

\* the wavefront at index k of cavitywfrList
Wavefront(k) == heap[Item(cavitywfrList, k)]

\* the order of the beamlines in C8
C8_Order == <<"propagateRight", "propagateDrift", "propagateLeft", "propagateDrift">>

\* C8: cavitywfrList is a chain.  Element 0 is wfrCenter0, untouched; every
\* element k+1 is an object of its own holding element k propagated through
\* the beamline at position k mod 4 of the order propagateRight,
\* propagateDrift, propagateLeft, propagateDrift; so elements 4k are at the
\* center, 4k+1 at the right mirror and 4k+3 at the left mirror.
C8_Chain ==
    (notebook = "cavity" /\ cavitywfrList # <<>>) =>
        /\ Item(cavitywfrList, 0) = 1
        /\ Wavefront(0) = createGsnSrcSRW
        /\ \A k \in 0..(Len(cavitywfrList) - 2) :
              /\ Item(cavitywfrList, k + 1) # Item(cavitywfrList, k)
              /\ Wavefront(k + 1) = Propagated(Wavefront(k), C8_Order[(k % 4) + 1])
        /\ \A k \in 0..(Len(cavitywfrList) - 1) :
              /\ k % 4 = 0 => Wavefront(k).z = 0
              /\ k % 4 = 1 => Wavefront(k).z = 1
              /\ k % 4 = 3 => Wavefront(k).z = 0 - 1
              /\ Len(Wavefront(k).path) = k

C8_Witness ==
    /\ notebook = "cavity" /\ pc = "done"
    /\ npass >= 2
    /\ Len(cavitywfrList) = 4 * npass + 1
    /\ Wavefront(4 * npass - 1).z = 0 - 1
\* C9: a solve that raises is the last solve of the execution: the
\* exception reaches the top level (it is in flight to, or has passed, the
\* consumer of evolve(), which handles StopIteration only), the generator
\* is not resumed, nothing can run after it, and the previous-solution
\* variable is what it was when the failing solve was called: for a step
\* k >= 1, the solution of step k-1 of the same run.
C9_NoRecovery ==
    TimeStepping =>
        \A j \in 1..Len(solves) :
            solves[j].outcome = "raised" =>
                /\ j = Len(solves)
                /\ \/ raised = "SolveError" /\ pc \in {"mp_except", "c11_except"}
                   \/ exc = "SolveError" /\ pc = "aborted" /\ ~ENABLED Next
                /\ gen \in {"none", "finished"}
                /\ PrevSolution = solves[j].prev
                /\ solves[j].step >= 1 =>
                      /\ solves[j - 1].run = solves[j].run
                      /\ solves[j - 1].step = solves[j].step - 1
                      /\ solves[j - 1].outcome = "returned"
                      /\ PrevSolution = SolveResult(solves[j - 1].prev)

C9_Witness ==
    /\ notebook = "xt02_heat_2D_square"
    /\ exc = "SolveError" /\ pc = "aborted" /\ gen = "finished"
    /\ solves # <<>>
    /\ solves[Len(solves)].outcome = "raised"
    /\ solves[Len(solves)].step >= 1
    /\ u_n = SolveResult(solves[Len(solves) - 1].prev)

\* the run made by the evolve() generator, and its consumer waiting in next
GeneratorRun == IF notebook = "xt02_heat_2D_square" THEN 1 ELSE 2
GeneratorAlive == gen \in {"created", "running", "suspended"}
ConsumerBlocked == pc \in {"mp_blocked", "c11_blocked"}

\* C10, in every state: the generator runs exactly when its consumer waits
\* in next; the frames handed over so far have been plotted in order, each
\* showing the field it held when it was yielded; and when the generator is
\* about to solve again, every frame handed over has been plotted.
C10_State ==
    TimeStepping =>
        /\ gen = "running" <=> ConsumerBlocked
        /\ GeneratorAlive =>
              LET ys == OfRun(frames, GeneratorRun)
                  ps == OfRun(plotted, GeneratorRun)
              IN  /\ Len(ps) <= Len(ys)
                  /\ \A k \in 1..Len(ps) : ps[k].val = ys[k].val
                  /\ (gen = "running" /\ gpc = "solve") => Len(ps) = Len(ys)

\* C10, in every step: while the generator is alive, a solve or an update of
\* the previous solution happens only with the consumer waiting in next.
C10_Step ==
    (TimeStepping /\ GeneratorAlive /\ (solves' # solves \/ PrevSolution' # PrevSolution))
        => (gen = "running" /\ ConsumerBlocked)

\* C10: evolve() and its consumer strictly alternate, and every frame is
\* plotted before the next solve overwrites the solution object.
C10_StrictAlternation == [](C10_State) /\ [][C10_Step]_vars

C10_Witness ==
    /\ notebook = "fn_simp_06d"
    /\ gen = "running" /\ gpc = "solve" /\ pc = "c11_blocked"
    /\ Len(OfRun(frames, 2)) >= 2
    /\ Len(OfRun(plotted, 2)) = Len(OfRun(frames, 2))

\* the solution variable and the loop index of the notebook being executed
Solution == IF notebook = "xt02_heat_2D_square" THEN u ELSE nph
Step == IF notebook = "xt02_heat_2D_square" THEN n ELSE ii

\* The loop is at the statement that assigns the previous solution.
AtAssign ==
    \/ pc \in {"c7_assign", "c8_assign"}
    \/ gen = "running" /\ gpc = "assign"

\* A step has been solved and its assignment has not been made yet.
MidStep ==
    \/ pc \in {"c7_plot", "c7_assign", "c8_plot", "c8_assign"}
    \/ GeneratorAlive /\ gpc \in {"yield", "assign"}

\* The step being executed plots or yields inside the loop.
FrameDue == IF Periodic(run) THEN Step % nip = 0 ELSE TRUE

\* the number of solves that returned
Returned == Len(SelectSeq(solves, LAMBDA e : e.outcome = "returned"))

\* C12, in every state of a run: the previous solution has been assigned
\* once for every solved step except the one in progress; the solve of a
\* step k >= 1 was called with the solution of step k-1 of the same run;
\* between steps, and when the notebook is over, the previous solution is
\* the solution of the last step solved, which then is step Steps - 1.
C12_State ==
    (TimeStepping /\ run >= 1) =>
        /\ PrevSolution.steps = Returned - (IF MidStep THEN 1 ELSE 0)
        /\ \A j \in 1..Len(solves) :
              solves[j].step >= 1 =>
                  /\ solves[j - 1].run = solves[j].run
                  /\ solves[j - 1].step = solves[j].step - 1
                  /\ solves[j].prev = SolveResult(solves[j - 1].prev)
        /\ (solves # <<>> /\ ~MidStep /\ solves[Len(solves)].outcome = "returned")
              => PrevSolution = SolveResult(solves[Len(solves)].prev)
        /\ (FirstRunOver /\ run = 1) =>
              /\ solves[Len(solves)].step = Steps - 1
              /\ PrevSolution = SolveResult(solves[Len(solves)].prev)
        /\ SecondRunOver =>
              /\ solves[Len(solves)].step = Steps - 1
              /\ PrevSolution = SolveResult(solves[Len(solves)].prev)

\* C12, in every step of a run: the previous solution changes only at the
\* assignment that ends a step, to the solution of that step, after the
\* step's solve has returned and after the step's plot or yield inside the
\* loop, if it has one.
C12_Step ==
    (TimeStepping /\ run >= 1 /\ PrevSolution' # PrevSolution) =>
        /\ AtAssign
        /\ PrevSolution' = Solution
        /\ solves # <<>>
        /\ solves[Len(solves)].run = run
        /\ solves[Len(solves)].step = Step
        /\ solves[Len(solves)].outcome = "returned"
        /\ Solution = SolveResult(solves[Len(solves)].prev)
        /\ FrameDue =>
              \E k \in 1..Len(frames) :
                  /\ frames[k].run = run
                  /\ frames[k].step = Step
                  /\ frames[k].at = "loop"

\* C12: within one time-stepping run the previous-solution variable is
\* assigned exactly once per step, after the step's solve and after its
\* plot or yield; the solve of step k >= 1 sees the solution of step k-1,
\* and after the run the variable holds the solution of the last step.
C12_AssignedOncePerStep == [](C12_State) /\ [][C12_Step]_vars

C12_Witness ==
    /\ notebook = "fn_simp_06d" /\ pc = "c8_solve"
    /\ ii >= 2
    /\ Len(OfRun(frames, 1)) >= 2
    /\ nph_j = SolveResult(solves[Len(solves)].prev)
    /\ nph_j.steps = ii

\* C13 (as claimed): when multiplot_from_generator has consumed evolve() to
\* the end, having been yielded k items, it has created ceil(k / num_columns)
\* figures: none of them is left without an item.
C13_FigurePerRow ==
    (notebook = "xt02_heat_2D_square" /\ FirstRunOver) =>
        figures = CeilDiv(Len(OfRun(frames, 1)), num_columns)

\* the notebook's approximate solution (3):
\* n_0 / (1 - [1 - exp(-sigma_ts Delta_0 x)]
\*              * exp[-gamma_ts sigma_ts eta_pulse (t - z/c) / tau_pulse])
Solution3(x, z, time) ==
    Div(n_ph_0,
        Sub(Float(1),
            Mul(Sub(Float(1), np_exp(Neg(Mul(Mul(sigma_ts, delta_0), x)))),
                np_exp(Div(Mul(Mul(Mul(Neg(gamma_ts), sigma_ts), eta_pulse),
                               Sub(time, Div(z, speed_of_light))),
                           tau_pulse)))))

\* C11 (as claimed): the photon density plotted by laser_amp_test_01 is, at
\* every grid index j, the approximate solution (3) at x = z = z_data[j]
\* (and at the time t_data[1] that the code uses).
C11_PlotIsSolution3 ==
    (notebook = "laser_amp_test_01" /\ pc = "done") =>
        /\ plotted = <<Plot(<<z_data, n_data>>)>>
        /\ \A k \in 0..(num_points - 1) :
              Item(n_data, k)
                  = Solution3(Item(z_data, k), Item(z_data, k), Item(t_data, 1))

\* C14 (as claimed): when fn1d_02 has computed the gain, g_e <= g_e_max and
\* 0 <= delta_ts <= delta_ts_0; in saturation (factor_ts >= factor_max) the
\* result is g_e = g_e_max and delta_ts = 0; otherwise g_e is the
\* logarithmic gain and delta_ts is what remains of delta_ts_0.
C14_GainCapped ==
    (notebook = "fn1d_02" /\ pc \in {"c3_n_ph", "done"}) =>
        /\ g_e_max = Add(Float(1),
                         Div(Div(Mul(delta_ts_0, length_ts), gamma_ts), eta_pulse))
        /\ g_e <= g_e_max
        /\ 0 <= delta_ts /\ delta_ts <= delta_ts_0
        /\ factor_ts >= factor_max => (g_e = g_e_max /\ delta_ts = 0)
        /\ factor_ts < factor_max =>
              /\ g_e = LogGain
              /\ delta_ts = RemainingInversion(g_e)

====
